---- MODULE Spec2Model ----
(***************************************************************************)
(* Model of src/src/app/app.ts: the App component holding the item ledger  *)
(* (signal `items`), the derived totals (computed signals), the durable    *)
(* slot localStorage['amazon-items'], the reactive form's hidden id field  *)
(* and the FileReader callbacks of JSON import.                            *)
(*                                                                         *)
(* JavaScript numbers are pairs <<kind, n>>: <<"fin", n>> a finite number, *)
(* <<"inf", 1>> / <<"inf", -1>> the infinities, <<"nan", 0>> NaN.          *)
(* Values of unknown type (fields of parsed JSON, form control values) are *)
(* pairs <<tag, n>>: "num" a JSON number, "numstr" a string holding the    *)
(* decimal n, "infstr" the string "Infinity", "word" a non-numeric string, *)
(* "bool" true/false (n = 1/0), "null", "missing" (property absent).       *)
(***************************************************************************)
EXTENDS Integers, Sequences, FiniteSets, Bags, TLC

\* ---------------------------------------------------------------- bounds
MaxItems == 2      \* add is offered while the ledger has fewer items
MaxFileLen == 2    \* longest JSON array in a file or in the slot
MaxReaders == 1    \* FileReaders that may be pending at once

\* ------------------------------------------------------ JavaScript numbers
Fin(n) == <<"fin", n>>
PosInf == <<"inf", 1>>
NaN == <<"nan", 0>>

IsFin(x) == x[1] = "fin"
IsInf(x) == x[1] = "inf"
IsNaN(x) == x[1] = "nan"

Sign(n) == IF n > 0 THEN 1 ELSE IF n < 0 THEN -1 ELSE 0

\* a * b
Mul(a, b) ==
  IF IsNaN(a) \/ IsNaN(b) THEN NaN
  ELSE IF IsInf(a) \/ IsInf(b)
       THEN IF Sign(a[2]) * Sign(b[2]) = 0 THEN NaN
            ELSE <<"inf", Sign(a[2]) * Sign(b[2])>>
       ELSE Fin(a[2] * b[2])

\* a + b
Add(a, b) ==
  IF IsNaN(a) \/ IsNaN(b) THEN NaN
  ELSE IF IsInf(a) /\ IsInf(b) THEN (IF a[2] = b[2] THEN a ELSE NaN)
  ELSE IF IsInf(a) THEN a
  ELSE IF IsInf(b) THEN b
  ELSE Fin(a[2] + b[2])

\* a - b
Sub(a, b) ==
  IF IsNaN(b) THEN NaN
  ELSE Add(a, <<b[1], 0 - b[2]>>)

\* x || 0 on a number: 0 and NaN are falsy
OrZero(x) == IF x = Fin(0) \/ IsNaN(x) THEN Fin(0) ELSE x

\* Number(v) for a value of unknown type
ToNumber(v) ==
  CASE v[1] = "num" -> Fin(v[2])
    [] v[1] = "numstr" -> Fin(v[2])
    [] v[1] = "infstr" -> PosInf
    [] v[1] = "bool" -> Fin(v[2])
    [] v[1] = "null" -> Fin(0)
    [] OTHER -> NaN

\* Number(v) || 0, the coercion applied to price, cost, amazonFees, sold
NumberOrZero(v) == OrZero(ToNumber(v))

\* JSON.stringify of a number: non-finite numbers are written as null
StringifyNumber(x) == IF IsFin(x) THEN <<"num", x[2]>> ELSE <<"null", 0>>


\* ------------------------------------------------------------------ inputs
Missing == <<"missing", 0>>

\* Date.now().toString(36) and Math.random().toString(36).slice(2, 7)
Times == {"t1"}
Rands == {"r1", "r2"}
GenIds == {t \o r : t \in Times, r \in Rands}

\* Entries a JSON array may hold.  id "" stands for an absent or empty id.
\* EntryNull is an entry that is not an object (null, a number, a string).
EntryW == [obj |-> TRUE, id |-> "", name |-> "Widget", price |-> <<"numstr", 10>>,
           cost |-> <<"word", 0>>, amazonFees |-> Missing, sold |-> <<"num", 5>>]
EntryG == [obj |-> TRUE, id |-> "a", name |-> "Gadget", price |-> <<"num", 20>>,
           cost |-> <<"num", 10>>, amazonFees |-> <<"num", 2>>, sold |-> <<"num", 1>>]
EntryX == [obj |-> TRUE, id |-> "a", name |-> "Gizmo", price |-> <<"infstr", 1>>,
           cost |-> <<"bool", 1>>, amazonFees |-> <<"num", -1>>, sold |-> <<"num", 1>>]
EntryNull == [obj |-> FALSE, id |-> "", name |-> "", price |-> Missing,
              cost |-> Missing, amazonFees |-> Missing, sold |-> Missing]
Entries == {EntryW, EntryG, EntryX}

\* A text: not JSON at all ("malformed"), a JSON value that is no array,
\* or a JSON array of entries.
Doc(kind, elems) == [kind |-> kind, elems |-> elems]
NonArrayKinds == {"malformed", "object", "number", "string", "null"}
ArrayDocs == {Doc("array", e) : e \in UNION {[1..n -> Entries] : n \in 0..MaxFileLen}}
NonObjectArray == Doc("array", <<EntryNull>>)
Files == {Doc(k, <<>>) : k \in NonArrayKinds} \cup {NonObjectArray} \cup ArrayDocs

\* localStorage.getItem('amazon-items'): null, the empty string, or a text
Absent == Doc("absent", <<>>)
InitialSlots == {Absent, Doc("empty", <<>>)} \cup Files

\* Values of the form controls name, price, cost, amazonFees, sold
Draft(n, p, c, f, s) == [name |-> n, price |-> p, cost |-> c, amazonFees |-> f, sold |-> s]
Drafts == {Draft("Widget", <<"num", 10>>, <<"num", 4>>, <<"num", 1>>, <<"num", 3>>),
           Draft("Widget", <<"numstr", 10>>, <<"word", 0>>, <<"num", 0>>, <<"num", 5>>),
           Draft("", <<"num", 10>>, <<"num", 4>>, <<"num", 1>>, <<"num", 3>>),
           Draft("Widget", <<"num", -1>>, <<"num", 4>>, <<"num", 1>>, <<"num", 3>>),
           Draft("Widget", <<"num", 10>>, <<"null", 0>>, <<"num", 1>>, <<"num", 3>>)}

\* --------------------------------------------------------------- the model
VARIABLES items, slot, formId, readers, totals, alert, uncaught, last
vars == <<items, slot, formId, readers, totals, alert, uncaught, last>>

\* ids of the items of a collection
Ids(arr) == {arr[k].id : k \in 1..Len(arr)}

\* the four numeric fields of p replaced by Number(field) || 0
Sanitize(p, id) ==
  [id |-> id, name |-> p.name,
   price |-> NumberOrZero(p.price), cost |-> NumberOrZero(p.cost),
   amazonFees |-> NumberOrZero(p.amazonFees), sold |-> NumberOrZero(p.sold)]

\* JSON.stringify(this.items())
Serialize(arr) ==
  Doc("array", [k \in 1..Len(arr) |->
    [obj |-> TRUE, id |-> arr[k].id, name |-> arr[k].name,
     price |-> StringifyNumber(arr[k].price), cost |-> StringifyNumber(arr[k].cost),
     amazonFees |-> StringifyNumber(arr[k].amazonFees),
     sold |-> StringifyNumber(arr[k].sold)]])

\* forEach assigning p.price = ... throws a TypeError on an entry that is
\* not an object
AllObjects(elems) == \A k \in 1..Len(elems) : elems[k].obj

\* a write to the slot that is skipped: the slot keeps its previous content
saveLocalSkipped(stored, arr) == stored

\* saveLocal(): the new content of the slot that held `stored`
saveLocal(stored, arr) == Serialize(arr)

\* the computed totals, as the reduce calls compute them
totalSold(arr) ==
  LET F[k \in 0..Len(arr)] ==
        IF k = 0 THEN Fin(0) ELSE Add(F[k-1], OrZero(arr[k].sold))
  IN F[Len(arr)]
totalRevenue(arr) ==
  LET F[k \in 0..Len(arr)] ==
        IF k = 0 THEN Fin(0)
        ELSE Add(F[k-1], Mul(OrZero(arr[k].price), OrZero(arr[k].sold)))
  IN F[Len(arr)]
totalCost(arr) ==
  LET F[k \in 0..Len(arr)] ==
        IF k = 0 THEN Fin(0)
        ELSE Add(F[k-1], Mul(OrZero(arr[k].cost), OrZero(arr[k].sold)))
  IN F[Len(arr)]
totalFees(arr) ==
  LET F[k \in 0..Len(arr)] ==
        IF k = 0 THEN Fin(0)
        ELSE Add(F[k-1], Mul(OrZero(arr[k].amazonFees), OrZero(arr[k].sold)))
  IN F[Len(arr)]
totalProfit(arr) == Sub(Sub(totalRevenue(arr), totalCost(arr)), totalFees(arr))

\* The memo of the computed signals.  A write to `items` marks them dirty;
\* the superseded values can no longer be observed and are dropped.
Dirty == [dirty |-> TRUE, sold |-> Fin(0), revenue |-> Fin(0), cost |-> Fin(0),
          fees |-> Fin(0), profit |-> Fin(0)]
Recompute(arr) ==
  [dirty |-> FALSE, sold |-> totalSold(arr), revenue |-> totalRevenue(arr),
   cost |-> totalCost(arr), fees |-> totalFees(arr), profit |-> totalProfit(arr)]

\* what a read of the five totals returns in the current state
ReadOf(memo, arr) == IF memo.dirty THEN Recompute(arr) ELSE memo

\* a write to `items` that does not reach the computed signals
InvalidateMissed(memo) == memo

\* items.set(...) / items.update(...): the signal notifies its consumers
Invalidate(memo) == Dirty

\* the constructor without its try/catch
ConstructorNoCatch(saved) ==
  IF saved.kind \in {"absent", "empty"}
  THEN [items |-> <<>>, warned |-> FALSE, threw |-> FALSE]
  ELSE IF saved.kind = "array" /\ AllObjects(saved.elems)
  THEN [items |-> [k \in 1..Len(saved.elems) |->
                     Sanitize(saved.elems[k], saved.elems[k].id)],
        warned |-> FALSE, threw |-> FALSE]
  ELSE [items |-> <<>>, warned |-> FALSE, threw |-> TRUE]

\* The constructor: load from the slot.  JSON.parse of a malformed text,
\* forEach on a value that is no array and the assignment to a property of
\* an entry that is no object all throw inside the try block.
Constructor(saved) ==
  IF saved.kind \in {"absent", "empty"}
  THEN [items |-> <<>>, warned |-> FALSE, threw |-> FALSE]
  ELSE IF saved.kind = "array" /\ AllObjects(saved.elems)
  THEN [items |-> [k \in 1..Len(saved.elems) |->
                     Sanitize(saved.elems[k], saved.elems[k].id)],
        warned |-> FALSE, threw |-> FALSE]
  ELSE [items |-> <<>>, warned |-> TRUE, threw |-> FALSE]

\* The handler that ran last and, for reader.onload, the text it was given.
\* Handlers that touch neither the ledger, the slot nor a reader (edit, a
\* submit of an invalid form, an upload without a file) are recorded as
\* "other".
Op(name, file) == [op |-> name, file |-> file]

Init ==
  /\ slot \in InitialSlots
  /\ items = Constructor(slot).items
  /\ uncaught = Constructor(slot).threw
  /\ formId = ""
  /\ readers = 0
  /\ totals = Dirty
  /\ alert = ""
  /\ last = Op(IF Constructor(slot).warned THEN "load_failed" ELSE "load", Absent)

\* The page is reloaded: a new App is constructed over the same slot.
Reload ==
  /\ items' = Constructor(slot).items
  /\ uncaught' = Constructor(slot).threw
  /\ formId' = ""
  /\ readers' = 0
  /\ totals' = Dirty
  /\ alert' = ""
  /\ last' = Op(IF Constructor(slot).warned THEN "load_failed" ELSE "load", Absent)
  /\ UNCHANGED slot

\* Validators.required and Validators.min(0) of the form group
Required(v) == v[1] \notin {"null", "missing"}
MinZero(v) == ~(v[1] \in {"num", "numstr"} /\ v[2] < 0)
FormInvalid(d) ==
  \/ d.name = ""
  \/ \E v \in {d.price, d.cost, d.amazonFees, d.sold} : ~Required(v) \/ ~MinZero(v)

\* edit(item): patchValue copies the item, its id included, into the form
Edit ==
  /\ \E k \in 1..Len(items) : formId' = items[k].id
  /\ alert' = ""
  /\ last' = Op("other", Absent)
  /\ UNCHANGED <<items, slot, readers, totals, uncaught>>

\* an update that inserts the item when no id matches
UpsertById(arr, val) ==
  IF \E k \in 1..Len(arr) : arr[k].id = val.id
  THEN [k \in 1..Len(arr) |-> IF arr[k].id = val.id THEN val ELSE arr[k]]
  ELSE Append(arr, val)

\* arr.map((i) => (i.id === val.id ? { ...val } : i))
UpdateById(arr, val) == [k \in 1..Len(arr) |-> IF arr[k].id = val.id THEN val ELSE arr[k]]

\* addOrUpdate(): the form is submitted with the values d typed by the user
AddOrUpdate ==
  \E d \in Drafts :
    /\ alert' = ""
    /\ IF FormInvalid(d)
       THEN /\ last' = Op("other", Absent)
            /\ UNCHANGED <<items, slot, formId, readers, totals, uncaught>>
       ELSE /\ IF formId # ""
               THEN /\ items' = UpdateById(items, Sanitize(d, formId))
                    /\ last' = Op(IF formId \in Ids(items) THEN "update" ELSE "update_miss",
                                  Absent)
               ELSE /\ Len(items) < MaxItems
                    /\ \E id \in GenIds : items' = Append(items, Sanitize(d, id))
                    /\ last' = Op("add", Absent)
            /\ totals' = Invalidate(totals)
            /\ slot' = saveLocal(slot, items')
            /\ formId' = ""
            /\ UNCHANGED <<readers, uncaught>>

\* arr.filter((i) => i.id !== item.id)
FilterOut(arr, id) == SelectSeq(arr, LAMBDA i : i.id # id)

\* remove(item)
Remove ==
  \E k \in 1..Len(items) :
    /\ items' = FilterOut(items, items[k].id)
    /\ totals' = Invalidate(totals)
    /\ slot' = saveLocal(slot, items')
    /\ alert' = ""
    /\ last' = Op("remove", Absent)
    /\ UNCHANGED <<formId, readers, uncaught>>

\* uploadJSON(event): a file was chosen, a FileReader starts reading it;
\* without a file the handler returns at once
UploadJSON ==
  /\ alert' = ""
  /\ \/ /\ readers < MaxReaders
        /\ readers' = readers + 1
        /\ last' = Op("upload", Absent)
     \/ /\ readers' = readers
        /\ last' = Op("other", Absent)
  /\ UNCHANGED <<items, slot, formId, totals, uncaught>>

\* the entries for which `!p.id` holds
NeedsId(elems) == {k \in 1..Len(elems) : elems[k].id = ""}

\* the forEach of reader.onload: coerce the numbers, backfill missing ids
\* with the generated ids g[k]
Normalize(elems, g) ==
  [k \in 1..Len(elems) |->
     Sanitize(elems[k], IF elems[k].id = "" THEN g[k] ELSE elems[k].id)]

\* JSON.parse(String(reader.result)) throws a SyntaxError
ParseThrows(f) == f.kind = "malformed"

\* an array check that lets every parsed value through
IsArrayAlways(f) == TRUE

\* Array.isArray(data)
IsArray(f) == f.kind = "array"

\* an import that keeps the previous items in front of the imported ones
ReplaceAllAppending(arr, data) == arr \o data

\* this.items.set(data)
ReplaceAll(arr, data) == data

MustBeArray == "Uploaded JSON must be an array of items"
InvalidFile == "Invalid JSON file"

\* reader.onload: the read of a pending FileReader completes with text f
OnLoad ==
  \E f \in Files :
    /\ readers > 0
    /\ readers' = readers - 1
    /\ IF ParseThrows(f) \/ (IsArray(f) /\ ~AllObjects(f.elems))
       THEN /\ alert' = InvalidFile
            /\ last' = Op("onload_rejected", f)
            /\ UNCHANGED <<items, slot, totals>>
       ELSE IF ~IsArray(f)
       THEN /\ alert' = MustBeArray
            /\ last' = Op("onload_rejected", f)
            /\ UNCHANGED <<items, slot, totals>>
       ELSE /\ \E g \in [NeedsId(f.elems) -> GenIds] :
                 items' = ReplaceAll(items, Normalize(f.elems, g))
            /\ totals' = Invalidate(totals)
            /\ slot' = saveLocal(slot, items')
            /\ alert' = ""
            /\ last' = Op("onload_ok", f)
    /\ UNCHANGED <<formId, uncaught>>

\* the template (or exportCSV) reads the five totals
ReadTotals ==
  /\ totals' = ReadOf(totals, items)
  /\ alert' = ""
  /\ last' = Op("read", Absent)
  /\ UNCHANGED <<items, slot, formId, readers, uncaught>>

Next ==
  \/ Reload
  \/ Edit
  \/ AddOrUpdate
  \/ Remove
  \/ UploadJSON
  \/ OnLoad
  \/ ReadTotals

Spec == Init /\ [][Next]_vars

\* ------------------------------------------------------------------ claims

\* the sum of term(item) over the items of arr, taken from the last item back
SumOver(arr, term(_)) ==
  LET G[k \in 1..Len(arr) + 1] ==
        IF k > Len(arr) THEN Fin(0) ELSE Add(term(arr[k]), G[k + 1])
  IN G[1]

\* C1: the five totals a read returns equal the sums taken over the current
\* collection: totalSold = sum of sold, totalRevenue = sum of price * sold,
\* totalCost = sum of cost * sold, totalFees = sum of amazonFees * sold,
\* totalProfit = totalRevenue - totalCost - totalFees, and all five are 0 for
\* the empty collection; no read returns a total of an older collection.
C1_TotalsMatchLedger ==
  LET r == ReadOf(totals, items)
      sold == SumOver(items, LAMBDA it : it.sold)
      revenue == SumOver(items, LAMBDA it : Mul(it.price, it.sold))
      cost == SumOver(items, LAMBDA it : Mul(it.cost, it.sold))
      fees == SumOver(items, LAMBDA it : Mul(it.amazonFees, it.sold))
  IN /\ r.sold = sold
     /\ r.revenue = revenue
     /\ r.cost = cost
     /\ r.fees = fees
     /\ r.profit = Sub(Sub(revenue, cost), fees)
     /\ items = <<>> =>
          r.sold = Fin(0) /\ r.revenue = Fin(0) /\ r.cost = Fin(0)
          /\ r.fees = Fin(0) /\ r.profit = Fin(0)

\* C1 witness: the totals were read after the ledger came to hold the two
\* items (20, 10, 2, 1) and (10, 4, 1, 3): 4 sold, revenue 50, cost 22,
\* fees 5, profit 23.
C1_Witness ==
  /\ last.op = "read"
  /\ ~totals.dirty
  /\ Len(items) = 2
  /\ totals.sold = Fin(4)
  /\ totals.revenue = Fin(50)
  /\ totals.cost = Fin(22)
  /\ totals.fees = Fin(5)
  /\ totals.profit = Fin(23)

NumericFields(it) == {it.price, it.cost, it.amazonFees, it.sold}

\* C2: every item of the collection has finite, non-negative price, cost,
\* amazonFees and sold, whatever raw values were loaded, submitted or imported.
C2_FiniteNonNegative ==
  \A k \in 1..Len(items) : \A x \in NumericFields(items[k]) : IsFin(x) /\ x[2] >= 0

\* C3: no two items of the collection carry the same id.
C3_UniqueById ==
  \A j, k \in 1..Len(items) : j # k => items[j].id # items[k].id

\* a stored number is the item's number; a number that is not finite has no
\* JSON form and is stored as null
FieldStored(raw, x) == IF IsFin(x) THEN raw = <<"num", x[2]>> ELSE raw = <<"null", 0>>

\* the text is a JSON array holding the items of arr, in order, field by field
StoredEquals(doc, arr) ==
  /\ doc.kind = "array"
  /\ Len(doc.elems) = Len(arr)
  /\ \A k \in 1..Len(arr) :
       /\ doc.elems[k].obj
       /\ doc.elems[k].id = arr[k].id
       /\ doc.elems[k].name = arr[k].name
       /\ FieldStored(doc.elems[k].price, arr[k].price)
       /\ FieldStored(doc.elems[k].cost, arr[k].cost)
       /\ FieldStored(doc.elems[k].amazonFees, arr[k].amazonFees)
       /\ FieldStored(doc.elems[k].sold, arr[k].sold)

MutatingOps == {"add", "update", "update_miss", "remove", "onload_ok"}
LoadOps == {"load", "load_failed"}
OnLoadOps == {"onload_ok", "onload_rejected"}

C5_BadImportRejected ==
  [][(last'.op \in OnLoadOps /\ last'.file.kind \in NonArrayKinds)
       => /\ items' = items
          /\ slot' = slot
          /\ alert' = (IF last'.file.kind = "malformed" THEN InvalidFile ELSE MustBeArray)]_vars

\* C5 witness: a JSON object was imported into a ledger that holds items; the
\* message is shown and the slot still holds them.
C5_Witness ==
  /\ last.op = "onload_rejected"
  /\ last.file.kind = "object"
  /\ alert = MustBeArray
  /\ items # <<>>
  /\ StoredEquals(slot, items)

\* C6: an update whose non-empty id matches no item leaves the collection as
\* it was, item for item.
C6_UpdateUnknownId ==
  [][last'.op = "update_miss" => items' = items]_vars

\* C6 witness: an update with an unknown id was applied to a ledger that
\* holds items.
C6_Witness ==
  /\ last.op = "update_miss"
  /\ items # <<>>

\* C7: after construction the ledger is empty when the slot is absent, and
\* also when the slot holds a text that is no JSON array; no error escapes
\* the constructor.
C7_LoadFallsBack ==
  last.op \in LoadOps =>
    /\ ~uncaught
    /\ slot.kind \in ({"absent"} \cup NonArrayKinds) => items = <<>>
    /\ slot.kind \in NonArrayKinds => last.op = "load_failed"

\* C7 witness: the App was constructed over a slot that holds a JSON object.
C7_Witness ==
  /\ last.op = "load_failed"
  /\ slot.kind = "object"
  /\ items = <<>>
  /\ ~uncaught

\* the bag of the items of a collection
ItemBag(arr) ==
  LET range == {arr[k] : k \in 1..Len(arr)}
  IN [x \in range |-> Cardinality({k \in 1..Len(arr) : arr[k] = x})]

\* C8: serializing the collection and importing the text, or loading it on
\* restart, yields the same bag of items: no id is regenerated and no number
\* is altered.
C8_RoundTrip ==
  LET text == Serialize(items)
  IN /\ \A g \in [NeedsId(text.elems) -> GenIds] :
          ItemBag(ReplaceAll(items, Normalize(text.elems, g))) = ItemBag(items)
     /\ ItemBag(Constructor(text).items) = ItemBag(items)

\* the number the import is to store for a raw value: its numeric value when
\* it is a number or a numeric string, 0 otherwise
NumericValueOrZero(v) ==
  CASE v[1] = "num" -> Fin(v[2])
    [] v[1] = "numstr" -> Fin(v[2])
    [] v[1] = "infstr" -> PosInf
    [] OTHER -> Fin(0)

\* C9: a successful import leaves one item per array entry, in order, each
\* number being the numeric value of the input or 0 when the input is not
\* numeric or missing; an entry with an id keeps it, an entry without one
\* gets a generated, non-empty id.
C9_ImportResult ==
  last.op = "onload_ok" =>
    /\ Len(items) = Len(last.file.elems)
    /\ \A k \in 1..Len(items) :
         LET e == last.file.elems[k]
         IN /\ items[k].name = e.name
            /\ items[k].price = NumericValueOrZero(e.price)
            /\ items[k].cost = NumericValueOrZero(e.cost)
            /\ items[k].amazonFees = NumericValueOrZero(e.amazonFees)
            /\ items[k].sold = NumericValueOrZero(e.sold)
            /\ e.id # "" => items[k].id = e.id
            /\ e.id = "" => items[k].id # ""

\* the steps of addOrUpdate and remove that change the ledger
AddStep == AddOrUpdate /\ last'.op = "add"
UpdateStep == AddOrUpdate /\ last'.op = "update"
RemoveStep == Remove

\* C10: choosing a file changes neither the collection nor the slot; while
\* its read is pending the ledger still takes add, update and remove; when
\* the read completes with an array of items the collection is exactly the
\* imported items, whatever it held before.
C10_ImportOnCallback ==
  /\ [][last'.op = "upload"
          => items' = items /\ slot' = slot /\ readers' = readers + 1]_vars
  /\ [](readers > 0 =>
          /\ (formId = "" /\ Len(items) < MaxItems) => ENABLED AddStep
          /\ (formId # "" /\ formId \in Ids(items)) => ENABLED UpdateStep
          /\ items # <<>> => ENABLED RemoveStep)
  /\ [][last'.op = "onload_ok"
          => /\ readers > 0
             /\ Len(items') = Len(last'.file.elems)
             /\ \A k \in 1..Len(items') :
                  LET e == last'.file.elems[k]
                  IN /\ items'[k].name = e.name
                     /\ e.id # "" => items'[k].id = e.id
                     /\ e.id = "" => items'[k].id \in GenIds]_vars

\* C10 witness: an item was added while a read was pending.
C10_Witness ==
  /\ readers > 0
  /\ last.op = "add"
  /\ items # <<>>

====
